---- MODULE Spec2Model ----
(***************************************************************************)
(* Archive extraction and directory normalization of RawSanj/setup:        *)
(* util.ExtractTarGz, util.Unzip and util.moveSingleDirToParent            *)
(* (src/util/unpack.go), run against a model of the file system.           *)
(*                                                                         *)
(* A path is a sequence of segments, <<>> being "/".  The file system is a *)
(* function from the existing paths to nodes.  One step of the model is    *)
(* one iteration of an extraction loop or one system call of the           *)
(* normalizer.  Every system call may fail for a reason of its own         *)
(* (ENOENT, ENOTDIR, ENOTEMPTY, computed from the file system) or for a    *)
(* reason of the environment (permissions, disk full, I/O error), which    *)
(* is a nondeterministic choice recorded in envFault.                      *)
(*                                                                         *)
(* SpecInstall is one run of `setup install` (src/cmd/root.go,             *)
(* src/cmd/install.go, util.DownloadFile): the configuration file, the     *)
(* loop over the selected services, the download into <path>.tmp, the      *)
(* call of ExtractTarGz above and the write of the configuration.          *)
(* SpecTwice is the same archive extracted twice into one destination.     *)
(***************************************************************************)
EXTENDS Integers, Sequences, FiniteSets, TLC

\* Largest number of entries read from one archive.
MaxEntries == 3

\* perm of os.MkdirAll in ExtractTarGz and moveSingleDirToParent (0755).
DirPerm == 493
\* perm of os.Create (0666).
CreatePerm == 438

VARIABLES
    fs,          \* the file system: existing path -> node
    fs0,         \* the file system when the call started
    format,      \* "tar" (ExtractTarGz) or "zip" (Unzip)
    pc,          \* position of the call
    read,        \* the archive entries the loop has taken so far, in order
    result,      \* "none" while running, "nil", or the call that returned err
    inner,       \* files[0].Name() in moveSingleDirToParent
    normLog,     \* system calls moveSingleDirToParent has made, in order
    failed,      \* the calls that returned an error so far, in order
    envFault,    \* a system call failed for a reason of the environment
    app          \* the install command around the call: see AppState

vars == <<fs, fs0, format, pc, read, result, inner, normLog, failed, envFault, app>>

----------------------------------------------------------------------------
\* Paths

Front(s) == SubSeq(s, 1, Len(s) - 1)
Last(s) == s[Len(s)]
IsPrefix(p, q) == Len(p) <= Len(q) /\ SubSeq(q, 1, Len(p)) = p

\* extractDir argument of ExtractTarGz / Unzip: InstallationPath/SelectedVersion.
\* The version directory is not itself named "tmp".
extractDir == <<"p", "v">>
\* filepath.Dir(extractDir), filepath.Base(extractDir)
parentDirPath == Front(extractDir)
extractDirName == Last(extractDir)
\* parentDirPath + "/tmp"
tmpDir == parentDirPath \o <<"tmp">>
\* tempPath as a path under the destination root itself
tempPathInsideDest == extractDir \o <<"tmp">>

\* parentDirPath + "/tmp/" + extractDirName
tempPath == parentDirPath \o <<"tmp", extractDirName>>
\* extractDir + "/" + files[0].Name()
oldPath(name) == extractDir \o <<name>>

\* Path resolution as filepath.Clean and the kernel do it on an absolute
\* path: empty and "." segments vanish, ".." drops the segment before it
\* and stays at the root.
RECURSIVE Clean(_)
Clean(raw) ==
    IF raw = <<>> THEN <<>>
    ELSE LET pre == Clean(Front(raw))
             seg == Last(raw)
         IN  IF seg = "" \/ seg = "." THEN pre
             ELSE IF seg = ".." THEN (IF pre = <<>> THEN <<>> ELSE Front(pre))
             ELSE Append(pre, seg)

----------------------------------------------------------------------------
\* File system

DirNode(mode) == [kind |-> "dir", data |-> "", mode |-> mode]
FileNode(data, mode) == [kind |-> "file", data |-> data, mode |-> mode]

Exists(f, p) == p \in DOMAIN f
IsDir(f, p) == p \in DOMAIN f /\ f[p].kind = "dir"
IsFile(f, p) == p \in DOMAIN f /\ f[p].kind = "file"
Children(f, p) == {q \in DOMAIN f : Len(q) = Len(p) + 1 /\ IsPrefix(p, q)}
Subtree(f, p) == {q \in DOMAIN f : IsPrefix(p, q)}
Put(f, p, node) == (p :> node) @@ f
Drop(f, S) == [q \in DOMAIN f \ S |-> f[q]]

\* The kernel walks a path segment by segment: every proper prefix has to
\* resolve to an existing directory.
WalkOK(f, raw) ==
    \A k \in 0..(Len(raw) - 1) : IsDir(f, Clean(SubSeq(raw, 1, k)))

\* mkdir(2)
Mkdir(f, raw, perm) ==
    IF WalkOK(f, raw) /\ ~Exists(f, Clean(raw))
    THEN [ok |-> TRUE, fs |-> Put(f, Clean(raw), DirNode(perm))]
    ELSE [ok |-> FALSE, fs |-> f]

\* os.MkdirAll: nil when the path is a directory already, an error when it
\* is a file; otherwise MkdirAll of the parent, then Mkdir, whose failure
\* is forgiven when the path is a directory by then.  The empty path fails.
RECURSIVE MkdirAll(_, _, _)
MkdirAll(f, raw, perm) ==
    IF WalkOK(f, raw) /\ Exists(f, Clean(raw))
    THEN [ok |-> IsDir(f, Clean(raw)), fs |-> f]
    ELSE IF raw = <<>> THEN [ok |-> FALSE, fs |-> f]
    ELSE LET up == IF Len(raw) > 1 THEN MkdirAll(f, Front(raw), perm)
                   ELSE [ok |-> TRUE, fs |-> f]
         IN  IF ~up.ok THEN up
             ELSE LET m == Mkdir(up.fs, raw, perm)
                  IN  IF m.ok THEN m
                      ELSE [ok |-> WalkOK(up.fs, raw) /\ IsDir(up.fs, Clean(raw)),
                            fs |-> up.fs]

\* open(2) with O_WRONLY|O_CREATE|O_TRUNC, as os.Create and the os.OpenFile
\* of Unzip: an existing file is emptied and keeps its mode.
Create(f, raw, perm) ==
    LET p == Clean(raw)
    IN  IF raw # <<>> /\ WalkOK(f, raw) /\ ~IsDir(f, p)
        THEN [ok |-> TRUE,
              fs |-> Put(f, p, FileNode("", IF Exists(f, p) THEN f[p].mode ELSE perm))]
        ELSE [ok |-> FALSE, fs |-> f]

\* io.Copy into the file just opened.
WriteData(f, p, data) == [f EXCEPT ![p].data = data]

\* Rename as a copy: the subtree appears under new and stays under old
RenameLeavingOld(f, old, new) ==
    IF Exists(f, old) /\ new # <<>> /\ IsDir(f, Front(new)) /\ ~IsPrefix(old, new)
       /\ (Exists(f, new) => IsDir(f, new) /\ Children(f, new) = {})
    THEN [ok |-> TRUE,
          fs |-> [q \in {new \o SubSeq(m, Len(old) + 1, Len(m)) : m \in Subtree(f, old)} |->
                     f[old \o SubSeq(q, Len(new) + 1, Len(q))]] @@ f]
    ELSE [ok |-> FALSE, fs |-> f]

\* rename(2) of clean paths: the whole subtree moves; an existing target has
\* to be an empty directory (for a directory) or a non-directory (for a file).
Rename(f, old, new) ==
    IF old = new /\ Exists(f, old) THEN [ok |-> TRUE, fs |-> f]
    ELSE IF /\ Exists(f, old)
            /\ new # <<>>
            /\ IsDir(f, Front(new))
            /\ ~IsPrefix(old, new)
            /\ (Exists(f, new) =>
                  IF IsDir(f, old) THEN IsDir(f, new) /\ Children(f, new) = {}
                  ELSE ~IsDir(f, new))
    THEN LET moved == Subtree(f, old)
             rest == Drop(f, moved \cup {new})
             to(q) == new \o SubSeq(q, Len(old) + 1, Len(q))
         IN  [ok |-> TRUE,
              fs |-> [q \in {to(m) : m \in moved} |->
                         f[old \o SubSeq(q, Len(new) + 1, Len(q))]] @@ rest]
    ELSE [ok |-> FALSE, fs |-> f]

\* os.Remove: unlink(2) of a file, rmdir(2) of an empty directory.
Remove(f, p) ==
    IF Exists(f, p) /\ p # <<>> /\ (IsDir(f, p) => Children(f, p) = {})
    THEN [ok |-> TRUE, fs |-> Drop(f, {p})]
    ELSE [ok |-> FALSE, fs |-> f]

----------------------------------------------------------------------------
\* Archives

DirEntry(path, mode) == [path |-> path, kind |-> "dir", data |-> "", mode |-> mode]
RegEntry(path, data, mode) == [path |-> path, kind |-> "file", data |-> data, mode |-> mode]
\* a symbolic link: tar.TypeSymlink, or a zip entry with ModeSymlink whose
\* content is the link's target
OtherEntry(path, data, mode) == [path |-> path, kind |-> "other", data |-> data, mode |-> mode]

\* header.Name / f.Name split at "/"; a leading "" is an absolute name.
Entries ==
    { DirEntry(<<"X">>, 493),
      RegEntry(<<"X", "f">>, "c1", 420),
      RegEntry(<<"X", "s", "g">>, "c2", 493),
      RegEntry(<<"X", "X">>, "c2", 420),
      RegEntry(<<"f">>, "c2", 420),
      DirEntry(<<"Y">>, 448),
      RegEntry(<<"..", "e">>, "c1", 420),
      RegEntry(<<"", "f">>, "c1", 420),
      OtherEntry(<<"X", "l">>, "f", 511) }

\* What a failed io.Copy leaves in the file: some prefix of the content.
Partial == {"", "part"}

\* The directory holding the installation, with or without an earlier
\* extraction under extractDir and with or without a tmp directory.
BaseTree == (<<>> :> DirNode(493)) @@ (parentDirPath :> DirNode(493))
DestTrees ==
    { <<>> :> DirNode(493),
      extractDir :> DirNode(493),
      (extractDir :> DirNode(493)) @@ (extractDir \o <<"f">> :> FileNode("old", 420)),
      (extractDir :> DirNode(493)) @@ (extractDir \o <<"X">> :> DirNode(493))
          @@ (extractDir \o <<"X", "k">> :> FileNode("old", 420)) }
TmpTrees ==
    { <<>> :> DirNode(493),
      tmpDir :> DirNode(493),
      (tmpDir :> DirNode(493)) @@ (tempPath :> DirNode(493))
          @@ (tempPath \o <<"k">> :> FileNode("old", 420)) }
InitTrees == {d @@ t @@ BaseTree : d \in DestTrees, t \in TmpTrees}

----------------------------------------------------------------------------
\* The configuration (src/cmd/root.go)

\* keys of Configuration.Services: two of the three services
Svc == {"kafka", "cassandra"}
\* keys of Service.Versions
VersionKeys == {"v1", "v2"}

\* a Service as createApplicationConfig builds it; url is "default" for the
\* built-in UrlTemplate and "custom" for one the user has put in the file
DefaultService(name) ==
    [Name |-> name, UrlTemplate |-> "default", IsEnabled |-> TRUE,
     SelectedVersion |-> "v2", ActiveVersion |-> "", InstalledVersion |-> <<>>]
\* Configuration.Services of createApplicationConfig: services[Kafka] = kafkaService ...
createApplicationConfig == [s \in Svc |-> DefaultService(s)]
\* Configuration{}: no services
EmptyConfiguration == <<>>

\* yaml.Marshal as marshalConfiguration uses it: the text of a YAML document
\* holding the configuration.  The other texts are "" (the key is not set)
\* and a text that is not a YAML document of a Configuration.
marshalConfiguration(c) == [text |-> "yaml", of |-> c]
EmptyString == [text |-> "", of |-> EmptyConfiguration]
NotYaml == [text |-> "garbage", of |-> EmptyConfiguration]
\* yaml.Unmarshal as unMarshalConfiguration uses it
unMarshalConfiguration(str) ==
    IF str.text = "yaml" THEN [ok |-> TRUE, cfg |-> str.of]
    ELSE [ok |-> FALSE, cfg |-> EmptyConfiguration]

\* the keys viper holds, in memory or in $HOME/.setup.yml: "application"
\* and "version" (set or not), and the string under ConfigurationKey
NoKeys == [meta |-> FALSE, configuration |-> EmptyString]
Keys(str) == [meta |-> TRUE, configuration |-> str]

\* $HOME/.setup.yml
AbsentFile == [kind |-> "absent", keys |-> NoKeys]
ConfigFile(keys) == [kind |-> "file", keys |-> keys]
\* a directory of that name
ConfigDir == [kind |-> "dir", keys |-> NoKeys]

\* The state of one run of `setup install`.
AppState(ipc, file) ==
    [ipc    |-> ipc,                  \* position of the command
     file   |-> file,                 \* $HOME/.setup.yml
     viper  |-> NoKeys,               \* viper's keys in memory
     cfg    |-> EmptyConfiguration,   \* applicationConfiguration.Services
     todo   |-> <<>>,                 \* servicesToInstall still to come
     cur    |-> "",                   \* selectedSvc
     log    |-> <<>>,                 \* what the command has done, in order
     ret    |-> "none",               \* what the command returned
     archive  |-> <<>>,               \* the entries of the archive extracted before
     firstLog |-> <<>>]               \* the normalizer's calls in that extraction

\* no command: ExtractTarGz or Unzip called on its own
NoApp == AppState("none", AbsentFile)

\* Largest number of entries read from the archive a command downloads.
MaxInstallEntries == 1
\* Largest number of entries of an archive that is extracted twice.
MaxTwiceEntries == 3
\* the same archive is being extracted into the same destination: for the
\* first time, for the second time
Twice == {"first", "second"}
\* the bound on the entries of the archive being read
EntryBound ==
    IF app.ipc = "none" THEN MaxEntries
    ELSE IF app.ipc \in Twice THEN MaxTwiceEntries
    ELSE MaxInstallEntries
\* the entries the reader can hand out next: any entry, or, when the
\* archive has been read before, the entry it held at this position
Offered ==
    IF app.ipc # "second" THEN Entries
    ELSE IF Len(read) < Len(app.archive) THEN {app.archive[Len(read) + 1]}
    ELSE {}

----------------------------------------------------------------------------
\* The call

Init ==
    /\ fs \in InitTrees
    /\ fs0 = fs
    /\ format \in {"tar", "zip"}
    /\ pc = "open"
    /\ read = <<>>
    /\ result = "none"
    /\ inner = ""
    /\ normLog = <<>>
    /\ failed = <<>>
    /\ envFault = FALSE
    /\ app = NoApp

\* return err: the call is over and err names the call that failed.
Return(err) ==
    /\ pc' = "done"
    /\ result' = err
    /\ failed' = Append(failed, err)

\* os.Open and gzip.NewReader of ExtractTarGz, zip.OpenReader of Unzip.
OpenArchive ==
    /\ pc = "open"
    /\ \E o \in IF format = "tar" THEN {"nil", "os.Open", "gzip.NewReader"}
                ELSE {"nil", "zip.OpenReader"} :
          /\ IF o = "nil" THEN pc' = "read" /\ UNCHANGED <<result, failed>>
             ELSE Return(o)
          /\ envFault' = (envFault \/ o # "nil")
    /\ UNCHANGED <<fs, fs0, format, read, inner, normLog, app>>

\* tarReader.Next() returns an error other than io.EOF.
TarNextFail ==
    /\ pc = "read" /\ format = "tar"
    /\ Return("tar.Next")
    /\ envFault' = TRUE
    /\ UNCHANGED <<fs, fs0, format, read, inner, normLog, app>>

\* case tar.TypeDir: a failed os.MkdirAll is printed and the loop goes on.
TarDir ==
    /\ pc = "read" /\ format = "tar" /\ Len(read) < EntryBound
    /\ \E e \in Offered, fault \in BOOLEAN :
          /\ e.kind = "dir"
          /\ LET m == MkdirAll(fs, extractDir \o e.path, DirPerm)
             IN  /\ fs' = IF fault THEN fs ELSE m.fs
                 /\ failed' = IF fault \/ ~m.ok THEN Append(failed, "os.MkdirAll")
                               ELSE failed
                 /\ envFault' = (envFault \/ (fault /\ m.ok))
          /\ read' = Append(read, e)
    /\ UNCHANGED <<fs0, format, pc, result, inner, normLog, app>>

\* TarReg with a failed io.Copy printed like a failed os.MkdirAll, and the
\* loop going on
TarRegCopyErrorPrinted ==
    /\ pc = "read" /\ format = "tar" /\ Len(read) < EntryBound
    /\ \E e \in Offered, o \in {"nil", "os.Create", "io.Copy"} :
          /\ e.kind = "file"
          /\ read' = Append(read, e)
          /\ LET c == Create(fs, extractDir \o e.path, CreatePerm)
                 p == Clean(extractDir \o e.path)
             IN  IF ~c.ok \/ o = "os.Create"
                 THEN /\ fs' = fs
                      /\ Return("os.Create")
                      /\ envFault' = (envFault \/ c.ok)
                 ELSE IF o = "io.Copy"
                 THEN /\ \E d \in Partial : fs' = WriteData(c.fs, p, d)
                      /\ failed' = Append(failed, "io.Copy")
                      /\ envFault' = TRUE
                      /\ UNCHANGED <<pc, result>>
                 ELSE /\ fs' = WriteData(c.fs, p, e.data)
                      /\ UNCHANGED <<pc, result, failed, envFault>>
    /\ UNCHANGED <<fs0, format, inner, normLog, app>>

\* case tar.TypeReg: os.Create, io.Copy, Close.
TarReg ==
    /\ pc = "read" /\ format = "tar" /\ Len(read) < EntryBound
    /\ \E e \in Offered, o \in {"nil", "os.Create", "io.Copy"} :
          /\ e.kind = "file"
          /\ read' = Append(read, e)
          /\ LET c == Create(fs, extractDir \o e.path, CreatePerm)
                 p == Clean(extractDir \o e.path)
             IN  IF ~c.ok \/ o = "os.Create"
                 THEN /\ fs' = fs
                      /\ Return("os.Create")
                      /\ envFault' = (envFault \/ c.ok)
                 ELSE IF o = "io.Copy"
                 THEN /\ \E d \in Partial : fs' = WriteData(c.fs, p, d)
                      /\ Return("io.Copy")
                      /\ envFault' = TRUE
                 ELSE /\ fs' = WriteData(c.fs, p, e.data)
                      /\ UNCHANGED <<pc, result, failed, envFault>>
    /\ UNCHANGED <<fs0, format, inner, normLog, app>>

\* default: the entry is printed and nothing else happens.
TarOther ==
    /\ pc = "read" /\ format = "tar" /\ Len(read) < EntryBound
    /\ \E e \in Offered :
          /\ e.kind = "other"
          /\ read' = Append(read, e)
    /\ UNCHANGED <<fs, fs0, format, pc, result, inner, normLog, failed, envFault, app>>

\* f.Open() fails.
ZipOpenFail ==
    /\ pc = "read" /\ format = "zip" /\ Len(read) < EntryBound
    /\ \E e \in Offered : read' = Append(read, e)
    /\ Return("f.Open")
    /\ envFault' = TRUE
    /\ UNCHANGED <<fs, fs0, format, inner, normLog, app>>

\* fpath := filepath.Join(extractDir, f.Name)
ZipFpath(e) == Clean(extractDir \o e.path)
\* fdir = fpath[:lastIndex]; "" when the last separator is the first byte
ZipFdir(fpath) == Front(fpath)

\* f.FileInfo().IsDir(): os.MkdirAll(fpath, f.Mode()), whose error is returned.
ZipDir ==
    /\ pc = "read" /\ format = "zip" /\ Len(read) < EntryBound
    /\ \E e \in Offered, fault \in BOOLEAN :
          /\ e.kind = "dir"
          /\ read' = Append(read, e)
          /\ LET m == MkdirAll(fs, ZipFpath(e), e.mode)
             IN  IF fault \/ ~m.ok
                 THEN /\ fs' = IF fault THEN fs ELSE m.fs
                      /\ Return("os.MkdirAll")
                      /\ envFault' = (envFault \/ m.ok)
                 ELSE /\ fs' = m.fs
                      /\ UNCHANGED <<pc, result, failed, envFault>>
    /\ UNCHANGED <<fs0, format, inner, normLog, app>>

\* else: os.MkdirAll(fdir, f.Mode()), os.OpenFile(fpath, ..., f.Mode()),
\* io.Copy.  Every entry that is not a directory takes this branch.
ZipFile ==
    /\ pc = "read" /\ format = "zip" /\ Len(read) < EntryBound
    /\ \E e \in Offered, o \in {"nil", "os.MkdirAll", "os.OpenFile", "io.Copy"} :
          /\ e.kind # "dir"
          /\ read' = Append(read, e)
          /\ LET fpath == ZipFpath(e)
                 m == MkdirAll(fs, ZipFdir(fpath), e.mode)
                 c == Create(m.fs, fpath, e.mode)
             IN  IF ~m.ok \/ o = "os.MkdirAll"
                 THEN /\ fs' = IF m.ok THEN fs ELSE m.fs
                      /\ Return("os.MkdirAll")
                      /\ envFault' = (envFault \/ m.ok)
                 ELSE IF ~c.ok \/ o = "os.OpenFile"
                 THEN /\ fs' = m.fs
                      /\ Return("os.OpenFile")
                      /\ envFault' = (envFault \/ c.ok)
                 ELSE IF o = "io.Copy"
                 THEN /\ \E d \in Partial : fs' = WriteData(c.fs, fpath, d)
                      /\ Return("io.Copy")
                      /\ envFault' = TRUE
                 ELSE /\ fs' = WriteData(c.fs, fpath, e.data)
                      /\ UNCHANGED <<pc, result, failed, envFault>>
    /\ UNCHANGED <<fs0, format, inner, normLog, app>>

\* err == io.EOF / the range over r.File ends: return moveSingleDirToParent(extractDir)
EndOfArchive ==
    /\ pc = "read"
    /\ app.ipc = "second" => Len(read) = Len(app.archive)
    /\ pc' = "norm_list"
    /\ UNCHANGED <<fs, fs0, format, read, result, inner, normLog, failed, envFault, app>>

----------------------------------------------------------------------------
\* moveSingleDirToParent, one system call a step

\* NormStep with the error of os.Remove(extractDir) dropped
NormStepRemoveErrorDropped(call, r, fault, next) ==
    /\ normLog' = Append(normLog, call)
    /\ IF (fault \/ ~r.ok) /\ call # "os.Remove(extractDir)"
       THEN /\ fs' = fs
            /\ Return(call)
            /\ envFault' = (envFault \/ r.ok)
       ELSE /\ fs' = IF fault \/ ~r.ok THEN fs ELSE r.fs
            /\ pc' = next
            /\ result' = IF next = "done" THEN "nil" ELSE result
            /\ failed' = IF fault \/ ~r.ok THEN Append(failed, call) ELSE failed
            /\ envFault' = (envFault \/ (fault /\ r.ok))

\* The step of moveSingleDirToParent that makes system call `call`: on an
\* error (the call's own, r.ok false, or the environment's, fault) the
\* function returns it; otherwise it goes on at `next`.
NormStep(call, r, fault, next) ==
    /\ normLog' = Append(normLog, call)
    /\ IF fault \/ ~r.ok
       THEN /\ fs' = fs
            /\ Return(call)
            /\ envFault' = (envFault \/ r.ok)
       ELSE /\ fs' = r.fs
            /\ pc' = next
            /\ result' = IF next = "done" THEN "nil" ELSE result
            /\ UNCHANGED <<failed, envFault>>

\* SingleDir without the test files[0].IsDir()
SingleDirAnyKind(f) == Cardinality(Children(f, extractDir)) = 1

\* SingleDir asking only that some child is a directory
SingleDirAmongOthers(f) == \E q \in Children(f, extractDir) : IsDir(f, q)

\* len(files) == 1 && files[0].IsDir()
SingleDir(f) ==
    /\ Cardinality(Children(f, extractDir)) = 1
    /\ \A q \in Children(f, extractDir) : IsDir(f, q)

\* files, err := ioutil.ReadDir(extractDir), and the test on files.
NormList ==
    /\ pc = "norm_list"
    /\ \E fault \in BOOLEAN :
          NormStep("ioutil.ReadDir",
                   [ok |-> IsDir(fs, extractDir), fs |-> fs], fault,
                   IF SingleDir(fs) THEN "norm_mktmp" ELSE "done")
    /\ inner' = IF SingleDir(fs)
                THEN Last(CHOOSE q \in Children(fs, extractDir) : TRUE)
                ELSE inner
    /\ UNCHANGED <<fs0, format, read, app>>

\* os.MkdirAll(parentDirPath+"/tmp", 0755)
NormMkTmp ==
    /\ pc = "norm_mktmp"
    /\ \E fault \in BOOLEAN :
          NormStep("os.MkdirAll(tmp)", MkdirAll(fs, tmpDir, DirPerm), fault, "norm_move")
    /\ UNCHANGED <<fs0, format, read, inner, app>>

\* os.Rename(oldPath, tempPath)
NormMove ==
    /\ pc = "norm_move"
    /\ \E fault \in BOOLEAN :
          NormStep("os.Rename(oldPath)", Rename(fs, oldPath(inner), tempPath), fault,
                   "norm_rmdest")
    /\ UNCHANGED <<fs0, format, read, inner, app>>

\* os.Remove(parentDirPath + "/" + extractDirName)
NormRmDest ==
    /\ pc = "norm_rmdest"
    /\ \E fault \in BOOLEAN :
          NormStep("os.Remove(extractDir)",
                   Remove(fs, parentDirPath \o <<extractDirName>>), fault, "norm_rename")
    /\ UNCHANGED <<fs0, format, read, inner, app>>

\* os.Rename(tempPath, extractDir)
NormRename ==
    /\ pc = "norm_rename"
    /\ \E fault \in BOOLEAN :
          NormStep("os.Rename(tempPath)", Rename(fs, tempPath, extractDir), fault,
                   "norm_rmtmp")
    /\ UNCHANGED <<fs0, format, read, inner, app>>

\* os.Remove(parentDirPath + "/tmp"), then return nil
NormRmTmp ==
    /\ pc = "norm_rmtmp"
    /\ \E fault \in BOOLEAN :
          NormStep("os.Remove(tmp)", Remove(fs, tmpDir), fault, "done")
    /\ UNCHANGED <<fs0, format, read, inner, app>>

Next ==
    \/ OpenArchive
    \/ TarNextFail
    \/ TarDir
    \/ TarReg
    \/ TarOther
    \/ ZipOpenFail
    \/ ZipDir
    \/ ZipFile
    \/ EndOfArchive
    \/ NormList
    \/ NormMkTmp
    \/ NormMove
    \/ NormRmDest
    \/ NormRename
    \/ NormRmTmp

Spec == Init /\ [][Next]_vars

----------------------------------------------------------------------------
\* `setup install` (src/cmd/root.go, src/cmd/install.go, util.DownloadFile)

\* the variables of the extraction call other than the file system
extractVars == <<fs0, format, pc, read, result, inner, normLog, failed, envFault>>

\* service.InstallationPath, and absoluteFilePath of DownloadFile with its
\* ".tmp" companion; extractDir is InstallationPath/SelectedVersion
installationPath == parentDirPath
absoluteFilePath == installationPath \o <<"a.tgz">>
tmpFilePath == installationPath \o <<"a.tgz.tmp">>

\* The installation directory of a service before it is installed: not
\* there, empty, holding this version from an earlier install, or holding
\* an archive an earlier run has left.
InstallTrees ==
    { <<>> :> DirNode(493),
      BaseTree,
      BaseTree @@ (extractDir :> DirNode(493))
          @@ (extractDir \o <<"k">> :> FileNode("old", 420)),
      BaseTree @@ (absoluteFilePath :> FileNode("old", 420)) }

\* The service as an earlier install of kafka v1 has left it, and a
\* UrlTemplate the user has customized.
InstalledBefore ==
    [createApplicationConfig EXCEPT
        !["kafka"].SelectedVersion = "v1",
        !["kafka"].ActiveVersion = "v1",
        !["kafka"].InstalledVersion = <<"v1">>,
        !["cassandra"].UrlTemplate = "custom"]

\* $HOME/.setup.yml when the command starts
InitFiles ==
    { AbsentFile,
      ConfigDir,
      ConfigFile(NoKeys),
      ConfigFile(Keys(NotYaml)),
      ConfigFile(Keys(marshalConfiguration(createApplicationConfig))),
      ConfigFile(Keys(marshalConfiguration(InstalledBefore))) }

InitInstall ==
    /\ fs = (<<>> :> DirNode(493))
    /\ fs0 = fs
    /\ format = "tar"
    /\ pc = "idle"
    /\ read = <<>>
    /\ result = "none"
    /\ inner = ""
    /\ normLog = <<>>
    /\ failed = <<>>
    /\ envFault = FALSE
    /\ app \in {AppState("initConfig", f) : f \in InitFiles}

\* the command returns err (nil included): rootCmd.Execute is over
Exit(a, err) == [a EXCEPT !.ipc = "exit", !.ret = err]
Logged(a, ev, svc, what) == [a EXCEPT !.log = Append(@, [ev |-> ev, svc |-> svc, what |-> what])]

\* initConfig: viper.ReadInConfig(), whose error is dropped.
InitConfig ==
    /\ app.ipc = "initConfig"
    /\ \E readOK \in BOOLEAN :
          app' = [app EXCEPT !.ipc = "preRun",
                             !.viper = IF readOK /\ app.file.kind = "file"
                                       THEN app.file.keys ELSE NoKeys]
    /\ UNCHANGED <<fs, extractVars>>

\* FileExists answering false for every file
FileExistsNever(file) == FALSE

\* util.FileExists: os.Stat; false when the file does not exist, and
\* !stat.IsDir() otherwise (any other error of os.Stat leaves stat nil, and
\* stat.IsDir() panics: the outcome "os.Stat" of InitializeConfigFile)
FileExists(file) == file.kind = "file"

\* PersistentPreRunE: initializeConfigFile.
InitializeConfigFile ==
    /\ app.ipc = "preRun"
    /\ \E o \in {"nil", "homedir.Dir", "os.Stat", "yaml.Marshal", "viper.SafeWriteConfig"} :
          IF o = "homedir.Dir" THEN app' = Exit(app, "os.Exit(1)")
          ELSE IF o = "os.Stat" /\ app.file.kind # "absent" THEN app' = Exit(app, "panic")
          ELSE IF FileExists(app.file) THEN app' = [app EXCEPT !.ipc = "runE"]
          ELSE IF o = "yaml.Marshal" THEN app' = Exit(app, "Error Marshalling Configuration")
          ELSE LET str == marshalConfiguration(createApplicationConfig)
                   set == [app EXCEPT !.viper = Keys(str)]
               IN  IF o = "viper.SafeWriteConfig" \/ app.file.kind # "absent"
                   THEN app' = Exit(set, "Error Writing Config File")
                   ELSE app' = Logged([set EXCEPT !.ipc = "runE",
                                                  !.file = ConfigFile(set.viper)],
                                      "write", "", "SafeWriteConfig")
    /\ UNCHANGED <<fs, extractVars>>

\* the orders in which a range over the map, or the user, can name services
Orders(S) ==
    {<<s>> : s \in S} \cup {o \in S \X S : o[1] # o[2]}
Range(seq) == {seq[i] : i \in DOMAIN seq}
Enabled(cfg) == {s \in DOMAIN cfg : cfg[s].IsEnabled}

\* RunE up to the loop: initializeApplicationConfiguration, the prompts
\* (acceptDefaultAndInstallAllPrompt, then defaultServicesToInstall or
\* chooseServicesToInstall with selectAndSetServiceVersion).
RunEStart ==
    /\ app.ipc = "runE"
    /\ LET str == app.viper.configuration
           u == unMarshalConfiguration(str)
       IN  IF str = EmptyString
           THEN app' = Exit(app, "configuration initialization failed")
           ELSE IF ~u.ok
           THEN app' = Exit(app, "Error UnMarshalling Configuration")
           ELSE \E promptErr \in BOOLEAN, accept \in BOOLEAN,
                   order \in Orders(Enabled(u.cfg)), version \in [Svc -> VersionKeys] :
                   IF promptErr THEN app' = Exit([app EXCEPT !.cfg = u.cfg], "survey.AskOne")
                   ELSE /\ accept => Range(order) = Enabled(u.cfg)
                        /\ app' = [app EXCEPT
                              !.ipc = "loop",
                              !.todo = order,
                              !.cfg = IF accept THEN u.cfg
                                      ELSE [s \in DOMAIN u.cfg |->
                                              IF s \in Range(order)
                                              THEN [u.cfg[s] EXCEPT !.SelectedVersion = version[s]]
                                              ELSE u.cfg[s]]]
    /\ UNCHANGED <<fs, extractVars>>

\* for _, selectedSvc := range servicesToInstall: the next service, whose
\* installation directory is the file system from here on; after the last
\* one the loop is left and no installation directory is in view.
LoopNext ==
    /\ app.ipc = "loop"
    /\ IF app.todo = <<>>
       THEN /\ app' = [app EXCEPT !.ipc = "marshal", !.cur = ""]
            /\ fs' = (<<>> :> DirNode(493))
       ELSE /\ app' = Logged([app EXCEPT !.ipc = "tmpl", !.cur = Head(app.todo),
                                         !.todo = Tail(app.todo)],
                             "attempt", Head(app.todo), "")
            /\ fs' \in InstallTrees
    /\ UNCHANGED extractVars

\* Report ending the command with the error of the service
ReportAndStop(a, err) == Exit(Logged(a, "error", a.cur, err), err)

\* downloadAndExtract returns err: RunE prints it and the loop goes on
Report(a, err) == Logged([a EXCEPT !.ipc = "loop"], "error", a.cur, err)

\* template.New("UrlTemplate").Parse(url) and t.Execute; the built-in
\* templates parse and execute.
UrlTemplate ==
    /\ app.ipc = "tmpl"
    /\ \E o \in {"nil", "template.Parse", "template.Execute"} :
          IF o # "nil" /\ app.cfg[app.cur].UrlTemplate = "custom"
          THEN app' = Report(app, o)
          ELSE app' = [app EXCEPT !.ipc = "mkdir"]
    /\ UNCHANGED <<fs, extractVars>>

\* os.MkdirAll(service.InstallationPath, 0755)
MkInstallDir ==
    /\ app.ipc = "mkdir"
    /\ \E fault \in BOOLEAN :
          LET m == MkdirAll(fs, installationPath, DirPerm)
          IN  IF fault \/ ~m.ok
              THEN fs' = fs /\ app' = Report(app, "os.MkdirAll")
              ELSE fs' = m.fs /\ app' = [app EXCEPT !.ipc = "dl_create"]
    /\ UNCHANGED extractVars

\* DownloadFile: out, err := os.Create(absoluteFilePath + ".tmp")
DlCreate ==
    /\ app.ipc = "dl_create"
    /\ \E fault \in BOOLEAN :
          LET c == Create(fs, tmpFilePath, CreatePerm)
          IN  IF fault \/ ~c.ok
              THEN fs' = fs /\ app' = Report(app, "os.Create(.tmp)")
              ELSE fs' = c.fs /\ app' = [app EXCEPT !.ipc = "dl_get"]
    /\ UNCHANGED extractVars

\* DownloadFile: resp, err := http.Get(url)
DlGet ==
    /\ app.ipc = "dl_get"
    /\ \E fault \in BOOLEAN :
          app' = IF fault THEN Report(app, "http.Get") ELSE [app EXCEPT !.ipc = "dl_copy"]
    /\ UNCHANGED <<fs, extractVars>>

\* DlCopy with the error of io.Copy ignored: the rename follows
DlCopyErrorIgnored ==
    /\ app.ipc = "dl_copy"
    /\ \E o \in {"nil", "io.Copy"} :
          IF o = "nil"
          THEN /\ fs' = WriteData(fs, tmpFilePath, "body")
               /\ app' = [app EXCEPT !.ipc = "dl_rename"]
          ELSE /\ \E d \in Partial : fs' = WriteData(fs, tmpFilePath, d)
               /\ app' = [app EXCEPT !.ipc = "dl_rename"]
    /\ UNCHANGED extractVars

\* DownloadFile: io.Copy(out, io.TeeReader(resp.Body, counter)); a failed
\* copy leaves some prefix of the body in the .tmp file.
DlCopy ==
    /\ app.ipc = "dl_copy"
    /\ \E o \in {"nil", "io.Copy"} :
          IF o = "nil"
          THEN /\ fs' = WriteData(fs, tmpFilePath, "body")
               /\ app' = [app EXCEPT !.ipc = "dl_rename"]
          ELSE /\ \E d \in Partial : fs' = WriteData(fs, tmpFilePath, d)
               /\ app' = Report(app, "io.Copy(.tmp)")
    /\ UNCHANGED extractVars

\* DownloadFile: os.Rename(absoluteFilePath+".tmp", absoluteFilePath), and
\* in downloadAndExtract the call of util.ExtractTarGz(downloadedFilePath,
\* InstallationPath/SelectedVersion), which starts.
DlRename ==
    /\ app.ipc = "dl_rename"
    /\ \E fault \in BOOLEAN :
          LET r == Rename(fs, tmpFilePath, absoluteFilePath)
          IN  IF fault \/ ~r.ok
              THEN /\ fs' = fs /\ app' = Report(app, "os.Rename(.tmp)")
                   /\ UNCHANGED extractVars
              ELSE /\ fs' = r.fs /\ app' = [app EXCEPT !.ipc = "extract"]
                   /\ fs0' = r.fs
                   /\ pc' = "open"
                   /\ UNCHANGED <<format, read, result, inner, normLog, failed, envFault>>

\* updateConfigAfterInstallation without the test ActiveVersion == ""
updateConfigActiveAlways(service, cfg) ==
    LET updated == [service EXCEPT
                       !.ActiveVersion = service.SelectedVersion,
                       !.InstalledVersion = Append(@, service.SelectedVersion)]
    IN  (service.Name :> updated) @@ cfg

\* updateConfigAfterInstallation(service, applicationConfiguration)
updateConfigAfterInstallation(service, cfg) ==
    LET active == IF service.ActiveVersion = "" THEN service.SelectedVersion
                  ELSE service.ActiveVersion
        updated == [service EXCEPT
                       !.ActiveVersion = active,
                       !.InstalledVersion = Append(@, service.SelectedVersion)]
    IN  (service.Name :> updated) @@ cfg

\* AfterExtract updating the configuration whatever ExtractTarGz returned
AfterExtractAlwaysUpdates ==
    /\ app.ipc = "extract" /\ pc = "done"
    /\ \E fault \in BOOLEAN :
          fs' = IF fault THEN fs ELSE Remove(fs, absoluteFilePath).fs
    /\ app' = Logged([app EXCEPT
                         !.ipc = "loop",
                         !.cfg = updateConfigAfterInstallation(app.cfg[app.cur], app.cfg)],
                     "installed", app.cur, app.cfg[app.cur].SelectedVersion)
    /\ pc' = "idle"
    /\ read' = <<>>
    /\ result' = "none"
    /\ inner' = ""
    /\ normLog' = <<>>
    /\ failed' = <<>>
    /\ envFault' = FALSE
    /\ UNCHANGED <<fs0, format>>

\* downloadAndExtract once ExtractTarGz has returned: _ = os.Remove(
\* downloadedFilePath); an extractErr is returned, otherwise the
\* configuration is updated.  The locals of the extraction call are gone.
AfterExtract ==
    /\ app.ipc = "extract" /\ pc = "done"
    /\ \E fault \in BOOLEAN :
          fs' = IF fault THEN fs ELSE Remove(fs, absoluteFilePath).fs
    /\ IF result # "nil"
       THEN app' = Report(app, result)
       ELSE app' = Logged([app EXCEPT
                              !.ipc = "loop",
                              !.cfg = updateConfigAfterInstallation(app.cfg[app.cur], app.cfg)],
                          "installed", app.cur, app.cfg[app.cur].SelectedVersion)
    /\ pc' = "idle"
    /\ read' = <<>>
    /\ result' = "none"
    /\ inner' = ""
    /\ normLog' = <<>>
    /\ failed' = <<>>
    /\ envFault' = FALSE
    /\ UNCHANGED <<fs0, format>>

\* RunE after the loop: marshalConfiguration, viper.Set(ConfigurationKey,
\* configurationString), viper.WriteConfig().  A failed write leaves the
\* file as it was or cut short.
WriteConfiguration ==
    /\ app.ipc = "marshal"
    /\ \E o \in {"nil", "yaml.Marshal", "viper.WriteConfig"}, cut \in BOOLEAN :
          LET str == marshalConfiguration(app.cfg)
              set == Logged([app EXCEPT !.viper.configuration = str], "marshal", "", "")
              wr == Logged(set, "write", "", "WriteConfig")
          IN  IF o = "yaml.Marshal"
              THEN app' = Exit(Logged(app, "marshal", "", ""), "Error Marshalling Configuration")
              ELSE IF o = "viper.WriteConfig" \/ app.file.kind # "file"
              THEN app' = Exit([wr EXCEPT !.file = IF cut /\ app.file.kind = "file"
                                                   THEN ConfigFile(NoKeys) ELSE @],
                               "Error Writing Config File")
              ELSE app' = Exit([wr EXCEPT !.file = ConfigFile(set.viper)], "nil")
    /\ UNCHANGED <<fs, extractVars>>

NextInstall ==
    \/ InitConfig
    \/ InitializeConfigFile
    \/ RunEStart
    \/ LoopNext
    \/ UrlTemplate
    \/ MkInstallDir
    \/ DlCreate
    \/ DlGet
    \/ DlCopy
    \/ DlRename
    \/ OpenArchive
    \/ TarNextFail
    \/ TarDir
    \/ TarReg
    \/ TarOther
    \/ EndOfArchive
    \/ NormList
    \/ NormMkTmp
    \/ NormMove
    \/ NormRmDest
    \/ NormRename
    \/ NormRmTmp
    \/ AfterExtract
    \/ WriteConfiguration

SpecInstall == InitInstall /\ [][NextInstall]_vars

----------------------------------------------------------------------------
\* The same archive extracted twice into the same destination

\* The destination before the first extraction: not there, or empty.
FreshTrees == {BaseTree, BaseTree @@ (extractDir :> DirNode(493))}

InitTwice ==
    /\ fs \in FreshTrees
    /\ fs0 = fs
    /\ format \in {"tar", "zip"}
    /\ pc = "open"
    /\ read = <<>>
    /\ result = "none"
    /\ inner = ""
    /\ normLog = <<>>
    /\ failed = <<>>
    /\ envFault = FALSE
    /\ app = AppState("first", AbsentFile)

\* ExtractTarGz or Unzip has returned nil and is called again with the same
\* filename and extractDir: the archive holds the entries it held, and the
\* destination is as the first call has left it.
ExtractAgain ==
    /\ app.ipc = "first" /\ pc = "done" /\ result = "nil"
    /\ app' = [app EXCEPT !.ipc = "second", !.archive = read, !.firstLog = normLog]
    /\ fs0' = fs
    /\ pc' = "open"
    /\ read' = <<>>
    /\ result' = "none"
    /\ inner' = ""
    /\ normLog' = <<>>
    /\ failed' = <<>>
    /\ envFault' = FALSE
    /\ UNCHANGED <<fs, format>>

NextTwice ==
    \/ OpenArchive
    \/ TarNextFail
    \/ TarDir
    \/ TarReg
    \/ TarOther
    \/ ZipOpenFail
    \/ ZipDir
    \/ ZipFile
    \/ EndOfArchive
    \/ NormList
    \/ NormMkTmp
    \/ NormMove
    \/ NormRmDest
    \/ NormRename
    \/ NormRmTmp
    \/ ExtractAgain

SpecTwice == InitTwice /\ [][NextTwice]_vars

TypeOK ==
    /\ pc \in {"idle", "open", "read", "norm_list", "norm_mktmp", "norm_move",
               "norm_rmdest", "norm_rename", "norm_rmtmp", "done"}
    /\ format \in {"tar", "zip"}
    /\ Len(read) <= MaxEntries
    /\ (pc = "idle") => (app.ipc # "none")
    /\ (pc = "done") = (result # "none")
    /\ \A q \in DOMAIN fs : q = <<>> \/ IsDir(fs, Front(q))

----------------------------------------------------------------------------
\* Vocabulary of the properties

Segments(e) == {e.path[i] : i \in DOMAIN e.path}
\* a file or directory entry with a relative name free of "." and ".."
Plain(e) == e.kind \in {"dir", "file"} /\ Segments(e) \cap {"", ".", ".."} = {}
\* the entry's name has a ".." segment or is absolute
Unsafe(e) == ".." \in Segments(e) \/ e.path[1] = ""
\* the entry's name resolves outside the destination root
Escapes(e) == ~IsPrefix(extractDir, Clean(extractDir \o e.path))

Prefixes(path) == {SubSeq(path, 1, k) : k \in 1..Len(path)}
ProperPrefixes(path) == {SubSeq(path, 1, k) : k \in 1..(Len(path) - 1)}
\* the directories and the files an archive of plain entries describes
ArchDirs(seq) ==
    UNION {IF e.kind = "dir" THEN Prefixes(e.path) ELSE ProperPrefixes(e.path) :
           e \in Range(seq)}
ArchFiles(seq) == {e.path : e \in {x \in Range(seq) : x.kind = "file"}}
ArchData(seq, path) ==
    LET I == {i \in DOMAIN seq : seq[i].kind = "file" /\ seq[i].path = path}
    IN  seq[CHOOSE i \in I : \A j \in I : j <= i].data
\* the tree the archive stores: relative path -> kind and content
ArchTree(seq) ==
    [r \in ArchDirs(seq) \cup ArchFiles(seq) |->
        IF r \in ArchFiles(seq) THEN [kind |-> "file", data |-> ArchData(seq, r)]
        ELSE [kind |-> "dir", data |-> ""]]
\* the tree below the top-level directory of a tree
Below(t) ==
    [r \in {Tail(q) : q \in {x \in DOMAIN t : Len(x) > 1}} |->
        t[CHOOSE q \in DOMAIN t : Len(q) > 1 /\ Tail(q) = r]]
\* the tree on disk below root: relative path -> kind and content
TreeUnder(f, root) ==
    [r \in {SubSeq(q, Len(root) + 1, Len(q)) : q \in Subtree(f, root) \ {root}} |->
        [kind |-> f[root \o r].kind, data |-> f[root \o r].data]]
\* every entry is plain and lies under the one top-level directory entry
Wrapped(seq) ==
    /\ seq # <<>>
    /\ \A e \in Range(seq) : Plain(e)
    /\ Cardinality({e.path[1] : e \in Range(seq)}) = 1
    /\ \E e \in Range(seq) : e.kind = "dir" /\ Len(e.path) = 1
\* the destination root is absent or empty and no tmp directory lies beside it
FreshStart ==
    /\ ~Exists(fs0, extractDir) \/ Children(fs0, extractDir) = {}
    /\ ~Exists(fs0, tmpDir)
\* what lies outside the destination root is as it was when the call started
OutsideUntouched ==
    \A q \in DOMAIN fs \cup DOMAIN fs0 :
        ~IsPrefix(extractDir, q) => q \in DOMAIN fs /\ q \in DOMAIN fs0 /\ fs[q] = fs0[q]

\* the destination root has exactly one child and it is a directory
OneChildDirectory(f) ==
    \E q \in Children(f, extractDir) : Children(f, extractDir) = {q} /\ f[q].kind = "dir"

\* the calls of the extraction loops whose error the loops return
ExtractFatal ==
    {"os.Open", "gzip.NewReader", "zip.OpenReader", "tar.Next", "f.Open",
     "os.Create", "os.OpenFile", "io.Copy"}
\* the calls of moveSingleDirToParent, in the order of the source
NormCalls ==
    <<"ioutil.ReadDir", "os.MkdirAll(tmp)", "os.Rename(oldPath)",
      "os.Remove(extractDir)", "os.Rename(tempPath)", "os.Remove(tmp)">>

----------------------------------------------------------------------------
\* Properties

\* C1: when the archive's sole top-level entry is a directory X, the call
\* returns with the destination root holding exactly the content of X,
\* one level up: no X, nothing lost, nothing added.  (Stated for a fresh
\* destination and an environment that fails no call.)
C1_WrappedArchiveIsFlattened ==
    (pc = "done" /\ ~envFault /\ FreshStart /\ Wrapped(read)) =>
        /\ result = "nil"
        /\ TreeUnder(fs, extractDir) = Below(ArchTree(read))

\* C2: when the listing shows anything but exactly one child that is a
\* directory, moveSingleDirToParent changes no path, inside or outside the
\* destination root, and returns nil.
C2_NormalizationNoOp ==
    [][(pc = "norm_list" /\ ~OneChildDirectory(fs) /\ failed' = failed) =>
          (fs' = fs /\ pc' = "done" /\ result' = "nil")]_vars

C2_Witness ==
    /\ pc = "done" /\ result = "nil" /\ normLog = <<"ioutil.ReadDir">>
    /\ Cardinality(Children(fs, extractDir)) >= 2
    /\ Exists(fs, tmpDir)

\* C3: an archive with an entry whose name, by a ".." segment or by being
\* absolute, resolves outside the destination root makes the call return an
\* error, and nothing outside the destination root is created or changed.
\* (Stated for an environment that fails no call.)
C3_EscapingNameRejected ==
    (pc = "done" /\ ~envFault /\ \E e \in Range(read) : Unsafe(e) /\ Escapes(e)) =>
        (result # "nil" /\ OutsideUntouched)

\* C4: a failed open, read, file create or copy ends the call at once with
\* that error: it is the last thing that happened, and moveSingleDirToParent
\* has not been called.
C4_FatalErrorEndsCall ==
    \A i \in DOMAIN failed :
        failed[i] \in ExtractFatal =>
            /\ i = Len(failed)
            /\ pc = "done"
            /\ result = failed[i]
            /\ normLog = <<>>

C4_Witness ==
    /\ pc = "done" /\ result = "io.Copy" /\ Len(read) >= 2 /\ normLog = <<>>
    /\ \E q \in DOMAIN fs : fs[q].data = "part"

\* C5: a failed directory creation for a Directory entry ends the call with
\* an error, in ExtractTarGz as in Unzip.
C5_FailedMkdirIsTerminal ==
    \A i \in DOMAIN failed :
        failed[i] = "os.MkdirAll" =>
            /\ i = Len(failed)
            /\ pc = "done"
            /\ result = "os.MkdirAll"

\* C6: an archive of file entries only, none preceded by a Directory entry
\* for its parents, is extracted successfully: the destination root and the
\* missing ancestors are created, and every file is on disk with its content
\* (one level up when the normalizer has flattened the tree).
C6_AncestorsCreatedForFiles ==
    (/\ pc = "done" /\ ~envFault /\ ~Exists(fs0, tmpDir)
     /\ read # <<>>
     /\ \A e \in Range(read) : Plain(e) /\ e.kind = "file") =>
        /\ result = "nil"
        /\ \A e \in Range(read) :
              \E q \in {extractDir \o e.path, extractDir \o Tail(e.path)} :
                  IsFile(fs, q) /\ fs[q].data = e.data

\* C7: a tar archive of plain entries without a single wrapping top-level
\* directory, extracted into a fresh destination, leaves exactly the
\* archive's files and directories under the destination root, at the
\* archive's paths and with the archive's content.
C7_TarTreeReproduced ==
    (/\ pc = "done" /\ format = "tar" /\ ~envFault /\ FreshStart
     /\ read # <<>>
     /\ \A e \in Range(read) : Plain(e)
     /\ ~(\E x \in ArchDirs(read) : \A e \in Range(read) : e.path[1] = x[1])) =>
        /\ result = "nil"
        /\ TreeUnder(fs, extractDir) = ArchTree(read)

\* C8: after a successful call on an archive of plain entries, one of them
\* a RegularFile, a file that was under the destination root
\* before it holds the archive's content when a RegularFile entry names its
\* path, and is otherwise where it was, unchanged.
C8_OverwriteAndFrame ==
    (/\ pc = "done" /\ result = "nil"
     /\ \A e \in Range(read) : Plain(e)
     /\ \E e \in Range(read) : e.kind = "file") =>
        \A q \in DOMAIN fs0 :
            (IsPrefix(extractDir, q) /\ fs0[q].kind = "file") =>
                LET I == {i \in DOMAIN read :
                            read[i].kind = "file" /\ Clean(extractDir \o read[i].path) = q}
                IN  IF I # {}
                    THEN IsFile(fs, q)
                         /\ fs[q].data = read[CHOOSE i \in I : \A j \in I : j <= i].data
                    ELSE Exists(fs, q) /\ fs[q] = fs0[q]

C10_NormFailureReturned ==
    \A i \in DOMAIN failed :
        failed[i] \in Range(NormCalls) =>
            /\ i = Len(failed)
            /\ pc = "done"
            /\ result = failed[i]
            /\ normLog # <<>> /\ Last(normLog) = failed[i]
            /\ failed[i] \in {"os.MkdirAll(tmp)", "os.Rename(oldPath)"} =>
                  IsDir(fs, oldPath(inner))
            /\ failed[i] = "os.Remove(extractDir)" =>
                  IsDir(fs, tempPath) /\ Children(fs, extractDir) = {}
                  /\ Exists(fs, extractDir)
            /\ failed[i] = "os.Rename(tempPath)" =>
                  IsDir(fs, tempPath) /\ ~Exists(fs, extractDir)
            /\ failed[i] = "os.Remove(tmp)" =>
                  Exists(fs, tmpDir) /\ ~Exists(fs, tempPath)

C10_Witness ==
    /\ pc = "done" /\ result = "os.Rename(tempPath)"
    /\ normLog = SubSeq(NormCalls, 1, 5)
    /\ ~Exists(fs, extractDir) /\ Children(fs, tempPath) # {}

\* the inner root has been moved and the final rename has not succeeded
InFlight ==
    /\ Len(normLog) \in 3..5
    /\ "os.Rename(oldPath)" \notin Range(failed)
    /\ Len(normLog) = 5 => "os.Rename(tempPath)" \in Range(failed)

C12_SuccessMeansNormalized ==
    (pc = "done" /\ result = "nil" /\ \A e \in Range(read) : Plain(e)) =>
        LET t == IF Len(normLog) > 1 THEN Below(ArchTree(read)) ELSE ArchTree(read)
            u == TreeUnder(fs, extractDir)
        IN  /\ IsDir(fs, extractDir)
            /\ \A r \in DOMAIN t : r \in DOMAIN u /\ u[r] = t[r]
            /\ \A q \in {tmpDir, tempPath} :
                   Exists(fs, q) => (Exists(fs0, q) /\ Len(normLog) = 1)

\* C13: an entry that is neither a regular file nor a directory is skipped,
\* in ExtractTarGz and in Unzip: reading it creates nothing on disk, no call
\* fails on it, and the loop goes on to the next entry.
C13_OtherKindSkipped ==
    [][(/\ pc = "read" /\ read' # read
        /\ Last(read').kind = "other"
        /\ envFault' = envFault) =>
            /\ fs' = fs
            /\ failed' = failed
            /\ pc' = "read" /\ result' = "none"]_vars

\* The error values each call hands back; ExtractTarGz and Unzip return
\* them as they are (return err), without wrapping or classifying them.
ErrorValues(call) ==
    CASE call = "os.Open"         -> {"*os.PathError"}
      [] call = "gzip.NewReader"  -> {"gzip.ErrHeader", "io.EOF", "io.ErrUnexpectedEOF"}
      [] call = "tar.Next"        -> {"tar.ErrHeader", "io.ErrUnexpectedEOF",
                                      "gzip.ErrChecksum", "flate.CorruptInputError"}
      [] call = "zip.OpenReader"  -> {"*os.PathError", "zip.ErrFormat"}
      [] call = "f.Open"          -> {"zip.ErrFormat", "zip.ErrAlgorithm",
                                      "io.ErrUnexpectedEOF"}
      [] call = "io.Copy"         -> {"io.ErrUnexpectedEOF", "gzip.ErrChecksum",
                                      "zip.ErrChecksum", "flate.CorruptInputError",
                                      "*os.PathError"}
      [] OTHER                    -> {"*os.PathError"}

\* the calls that open the archive and check its header
OpenCalls == IF format = "tar" THEN {"os.Open", "gzip.NewReader"} ELSE {"zip.OpenReader"}
\* the calls that read the entries of an opened archive
StreamCalls == IF format = "tar" THEN {"tar.Next"} ELSE {"f.Open"}

\* C15: when the call fails while reading the entries of an archive whose
\* header was accepted, the error it returns is none of the errors it
\* returns when the archive cannot be opened or its header is invalid.
C15_CorruptDistinctFromOpen ==
    (pc = "done" /\ result \in StreamCalls) =>
        \A c \in OpenCalls : ErrorValues(result) \cap ErrorValues(c) = {}

\* C16: a directory or regular file created for an entry carries the
\* entry's mode, in ExtractTarGz and in Unzip, and the ancestors created
\* for a file are created with directory permissions, not the file's mode.
C16_EntryModesKept ==
    [][(/\ pc = "read" /\ pc' = "read" /\ read' # read /\ failed' = failed
        /\ Plain(Last(read'))) =>
            LET e == Last(read')
                p == extractDir \o e.path
            IN  /\ ~Exists(fs, p) => (Exists(fs', p) /\ fs'[p].mode = e.mode)
                /\ e.kind = "file" =>
                      \A q \in ProperPrefixes(p) :
                          (~Exists(fs, q) /\ Exists(fs', q)) => fs'[q].mode = DirPerm
      ]_vars

----------------------------------------------------------------------------
\* Claims about the install command (SpecInstall)

\* the node at a path, or a node of kind "absent"
NodeAt(f, p) == IF Exists(f, p) THEN f[p] ELSE [kind |-> "absent", data |-> "", mode |-> 0]
\* DownloadFile is running
Downloading == app.ipc \in {"dl_create", "dl_get", "dl_copy", "dl_rename"}

\* C14: DownloadFile writes only to <path>.tmp; the final archive path
\* changes only by the rename that follows a complete copy of the body; a
\* download that returns an error leaves the final path as it was, and
\* extraction starts only on a completely downloaded archive.
C14_DownloadNeverPartial ==
    [][Downloading =>
          /\ \A q \in (DOMAIN fs \cup DOMAIN fs') \ {tmpFilePath, absoluteFilePath} :
                NodeAt(fs', q) = NodeAt(fs, q)
          /\ NodeAt(fs', absoluteFilePath) # NodeAt(fs, absoluteFilePath) =>
                /\ app.ipc = "dl_rename" /\ app'.ipc = "extract"
                /\ NodeAt(fs, tmpFilePath).data = "body"
                /\ NodeAt(fs', absoluteFilePath) = NodeAt(fs, tmpFilePath)
                /\ ~Exists(fs', tmpFilePath)
          /\ app'.ipc = "loop" =>
                /\ NodeAt(fs', absoluteFilePath) = NodeAt(fs, absoluteFilePath)
                /\ pc' = "idle"
          /\ pc' = "open" =>
                /\ IsFile(fs', absoluteFilePath)
                /\ fs'[absoluteFilePath].data = "body"
      ]_vars

\* a copy has failed half way: the part is in the .tmp file, the archive
\* of an earlier run is still at the final path, and the loop goes on
C14_Witness ==
    /\ app.ipc = "loop"
    /\ NodeAt(fs, tmpFilePath).data = "part"
    /\ NodeAt(fs, absoluteFilePath).data = "old"

\* the default configuration file initializeConfigFile writes
DefaultFile == ConfigFile(Keys(marshalConfiguration(createApplicationConfig)))
\* the command ended because the home directory or the file could not be
\* looked at
LookupFailed(a) == a.ret \in {"os.Exit(1)", "panic"}

\* C17: when $HOME/.setup.yml exists as a regular file, initializeConfigFile
\* leaves the file and viper's keys as they are and returns nil; the file
\* is written only when it is absent, with the default configuration; and
\* when it is absent and not written, an error is returned.
C17_ExistingConfigKept ==
    [][app.ipc = "preRun" =>
          /\ app.file.kind = "file" =>
                /\ app'.file = app.file
                /\ app'.viper = app.viper
                /\ ~LookupFailed(app') => (app'.ipc = "runE" /\ app'.ret = "none")
          /\ app'.file # app.file =>
                /\ app.file.kind = "absent"
                /\ app'.file = DefaultFile
                /\ app'.ipc = "runE" /\ app'.ret = "none"
          /\ (app.file.kind = "absent" /\ app'.file = app.file) =>
                (app'.ipc = "exit" /\ app'.ret \notin {"none", "nil"})
      ]_vars

\* initializeConfigFile has returned nil on a file that was there, and
\* nothing has been written
C17_Witness ==
    /\ app.ipc = "runE"
    /\ app.file.kind = "file" /\ app.file # DefaultFile
    /\ app.viper = app.file.keys
    /\ app.log = <<>>

\* downloadAndExtract is running
Installing == app.ipc \in {"tmpl", "mkdir", "dl_create", "dl_get", "dl_copy",
                           "dl_rename", "extract"}
\* the step on which downloadAndExtract returns nil: the download has
\* returned no error and ExtractTarGz has returned nil
InstallSucceeds == app.ipc = "extract" /\ pc = "done" /\ result = "nil" /\ app'.ipc = "loop"

\* C18: within downloadAndExtract the services' InstalledVersion and
\* ActiveVersion change only on the step on which download and extraction
\* have both returned no error; that step appends the SelectedVersion to
\* the service's InstalledVersion, one element, sets its ActiveVersion to
\* the SelectedVersion or leaves it, and leaves the other services alone.
C18_ConfigChangesOnSuccessOnly ==
    [][Installing =>
          /\ DOMAIN app'.cfg = DOMAIN app.cfg
          /\ \A s \in DOMAIN app.cfg :
                IF InstallSucceeds /\ s = app.cur
                THEN /\ app'.cfg[s].InstalledVersion =
                            Append(app.cfg[s].InstalledVersion, app.cfg[s].SelectedVersion)
                     /\ app'.cfg[s].ActiveVersion \in
                            {app.cfg[s].ActiveVersion, app.cfg[s].SelectedVersion}
                ELSE /\ app'.cfg[s].InstalledVersion = app.cfg[s].InstalledVersion
                     /\ app'.cfg[s].ActiveVersion = app.cfg[s].ActiveVersion
      ]_vars

\* kafka, installed before, has been installed again and the install of
\* cassandra has failed
C18_Witness ==
    /\ app.ipc = "loop"
    /\ "kafka" \in DOMAIN app.cfg /\ Len(app.cfg["kafka"].InstalledVersion) = 2
    /\ \E i \in DOMAIN app.log : app.log[i].ev = "error" /\ app.log[i].svc = "cassandra"
    /\ app.cfg["cassandra"].InstalledVersion = <<>>

\* the ActiveVersion a configuration holds for a service, "" when it holds none
ActiveOf(c, s) == IF s \in DOMAIN c THEN c[s].ActiveVersion ELSE ""
\* $HOME/.setup.yml holds a configuration; the configuration it holds
HoldsConfiguration(a) == a.file.kind = "file" /\ a.file.keys.configuration.text = "yaml"
Stored(a) == IF HoldsConfiguration(a) THEN a.file.keys.configuration.of ELSE EmptyConfiguration

\* C19: an ActiveVersion that is not empty is never changed, in the
\* configuration the command works on or in the configuration file from one
\* write to the next; an empty one is set only by a successful install of
\* the service, to its SelectedVersion; and a command starts from the
\* ActiveVersion the file holds.
C19_ActiveVersionSetOnce ==
    [][\A s \in Svc :
          /\ (Installing \/ app.ipc = "loop") =>
                IF ActiveOf(app.cfg, s) # ""
                THEN ActiveOf(app'.cfg, s) = ActiveOf(app.cfg, s)
                ELSE ActiveOf(app'.cfg, s) # "" =>
                        /\ InstallSucceeds /\ s = app.cur
                        /\ ActiveOf(app'.cfg, s) = app.cfg[s].SelectedVersion
          /\ (app.ipc = "runE" /\ app'.ipc = "loop") =>
                ActiveOf(app'.cfg, s) = ActiveOf(Stored(app), s)
          /\ (HoldsConfiguration(app) /\ HoldsConfiguration(app')
              /\ ActiveOf(Stored(app), s) # "") =>
                ActiveOf(Stored(app'), s) = ActiveOf(Stored(app), s)
      ]_vars

\* kafka, active at v1 from an earlier run, has been installed at v2 and
\* the configuration written: v1 is still the active version
C19_Witness ==
    /\ app.ret = "nil"
    /\ "kafka" \in DOMAIN Stored(app)
    /\ Stored(app)["kafka"].InstalledVersion = <<"v1", "v2">>
    /\ Stored(app)["kafka"].ActiveVersion = "v1"

\* the events of one kind the command has logged, in order
Events(log, ev) == SelectSeq(log, LAMBDA e : e.ev = ev)
\* the services attempted so far, in order
Attempted(log) == [i \in DOMAIN Events(log, "attempt") |-> Events(log, "attempt")[i].svc]
\* the versions whose install has succeeded for a service, in order
InstalledNow(log, s) ==
    LET done == SelectSeq(log, LAMBDA e : e.ev = "installed" /\ e.svc = s)
    IN  [i \in DOMAIN done |-> done[i].what]
\* the writes of viper.WriteConfig
ConfigWrites(log) == SelectSeq(log, LAMBDA e : e.ev = "write" /\ e.what = "WriteConfig")

\* C20: the loop attempts the selected services in turn whatever
\* downloadAndExtract returns: an error of a service neither ends the loop
\* nor becomes the error of the command; the configuration is marshalled
\* once, after every service has been attempted, and written at most once
\* after that; a command that returns nil has written it exactly once, and
\* the file then holds, for every service, the versions it held before
\* followed by those installed with success.
C20_LoopAttemptsEveryService ==
    /\ [](/\ \A i \in DOMAIN app.log : app.log[i].ev = "error" => app.ret # app.log[i].what
          /\ Len(Events(app.log, "marshal")) <= 1
          /\ Len(ConfigWrites(app.log)) <= Len(Events(app.log, "marshal"))
          /\ Len(Events(app.log, "marshal")) = 1 => (app.todo = <<>> /\ app.ipc = "exit")
          /\ app.ret = "nil" => (Len(ConfigWrites(app.log)) = 1 /\ Stored(app) = app.cfg))
    /\ [][/\ (app.ipc = "loop" \/ Installing) =>
                /\ Attempted(app'.log) \o app'.todo = Attempted(app.log) \o app.todo
                /\ app'.ret = "none"
                /\ app'.ipc = "loop" \/ app'.ipc = "marshal" \/ Installing'
                /\ app'.ipc = "marshal" => app.todo = <<>>
          /\ (app.ipc = "marshal" /\ app'.ret = "nil") =>
                \A s \in DOMAIN Stored(app) :
                    Stored(app')[s].InstalledVersion =
                        Stored(app)[s].InstalledVersion \o InstalledNow(app.log, s)
         ]_vars

\* the first service has failed, the second has been installed and the
\* command has written the configuration and returned nil
C20_Witness ==
    /\ app.ret = "nil"
    /\ \E i, j \in DOMAIN app.log :
          /\ i < j
          /\ app.log[i].ev = "error"
          /\ app.log[j].ev = "installed"

\* C21: when downloadAndExtract returns after a download that succeeded,
\* whether ExtractTarGz returned nil or an error, the downloaded archive is
\* no longer at its final path.
C21_ArchiveRemovedAfterExtraction ==
    [][(app.ipc = "extract" /\ app'.ipc # "extract") =>
            ~Exists(fs', absoluteFilePath)]_vars

----------------------------------------------------------------------------
\* Claims about extracting twice (SpecTwice)

\* the first extraction was of a single-wrapped archive whose directory has
\* a child, and has left the destination root normalized: holding the
\* content of the directory one level up
NormalizedByFirstRun ==
    /\ app.ipc = "second"
    /\ Wrapped(app.archive)
    /\ \E e \in Range(app.archive) : Len(e.path) > 1
    /\ Len(app.firstLog) = Len(NormCalls)
    /\ TreeUnder(fs0, extractDir) = Below(ArchTree(app.archive))
\* the destination root holds what the first extraction has left and, under
\* the archive's directory, the archive's content again
HoldsBoth ==
    LET first == TreeUnder(fs0, extractDir)
        again == ArchTree(app.archive)
        now == TreeUnder(fs, extractDir)
    IN  /\ DOMAIN now = DOMAIN first \cup DOMAIN again
        /\ \A r \in DOMAIN first : now[r] = first[r]
        /\ \A r \in DOMAIN again : now[r] = again[r]

\* C22 as stated: the second extraction of a single-wrapped archive into
\* the destination the first has normalized returns nil, the normalizer
\* does nothing, and the destination root holds the first run's flattened
\* children and the archive's directory with the content again.
C22_SecondRunKeepsBoth ==
    (NormalizedByFirstRun /\ pc = "done" /\ ~envFault) =>
        /\ result = "nil"
        /\ normLog = <<"ioutil.ReadDir">>
        /\ HoldsBoth

\* no child of the archive's directory has the directory's own name
NoChildNamedAsRoot(seq) == \A e \in Range(seq) : Len(e.path) > 1 => e.path[2] # e.path[1]

\* C22, amended: the same, provided no child of X is itself named X.
C22_SecondRunKeepsBothAmended ==
    (NormalizedByFirstRun /\ NoChildNamedAsRoot(app.archive) /\ pc = "done" /\ ~envFault) =>
        /\ result = "nil"
        /\ normLog = <<"ioutil.ReadDir">>
        /\ HoldsBoth

\* the second extraction has returned nil on a destination that holds the
\* first run's children and the archive's directory
C22_Witness ==
    /\ NormalizedByFirstRun /\ NoChildNamedAsRoot(app.archive)
    /\ pc = "done" /\ ~envFault /\ result = "nil"
    /\ Cardinality(Children(fs, extractDir)) > 1
    /\ \E q \in Children(fs, extractDir) : Children(fs, q) # {}

====
